---------------------------- MODULE Spec2Model ----------------------------
(***************************************************************************)
(* A model of src/git/git.ts: the layer that builds git command lines,     *)
(* runs them through spawnPromise, classifies and logs failures, and       *)
(* materializes a revision of a file into a temporary file.                *)
(*                                                                         *)
(* Strings are sequences of one-character strings, so that the substring   *)
(* tests and replacements of the source are computed, not assumed.         *)
(***************************************************************************)
EXTENDS Integers, Sequences, FiniteSets, TLC

VARIABLES git, calls, findCount

vars == <<git, calls, findCount>>

(***************************************************************************)
(* String literals of the source.                                          *)
(***************************************************************************)
NotAGitRepository ==
    <<"N", "o", "t", " ", "a", " ", "g", "i", "t", " ", "r", "e", "p", "o", "s", "i", "t", "o", "r", "y">>
IsOutsideRepository ==
    <<"i", "s", " ", "o", "u", "t", "s", "i", "d", "e", " ", "r", "e", "p", "o", "s", "i", "t", "o", "r", "y">>
NoSuchPath ==
    <<"n", "o", " ", "s", "u", "c", "h", " ", "p", "a", "t", "h">>
RevParse ==
    <<"r", "e", "v", "-", "p", "a", "r", "s", "e">>
ShowToplevel ==
    <<"-", "-", "s", "h", "o", "w", "-", "t", "o", "p", "l", "e", "v", "e", "l">>
BlameCmd ==
    <<"b", "l", "a", "m", "e">>
RootFlag ==
    <<"-", "-", "r", "o", "o", "t">>
DashDash ==
    <<"-", "-">>
LogCmd ==
    <<"l", "o", "g">>
Follow ==
    <<"-", "-", "f", "o", "l", "l", "o", "w">>
NameOnly ==
    <<"-", "-", "n", "a", "m", "e", "-", "o", "n", "l", "y">>
NoMerges ==
    <<"-", "-", "n", "o", "-", "m", "e", "r", "g", "e", "s">>
LogFormat ==
    <<"-", "-", "f", "o", "r", "m", "a", "t", "=", "%", "H", " ", "-", "%", "n", "a", "u", "t", "h", "o", "r", " ", "%", "a", "n", "%", "n", "a", "u", "t", "h", "o", "r", "-", "d", "a", "t", "e", " ", "%", "a", "i", "%", "n", "c", "o", "m", "m", "i", "t", "t", "e", "r", " ", "%", "c", "n", "%", "n", "c", "o", "m", "m", "i", "t", "t", "e", "r", "-", "d", "a", "t", "e", " ", "%", "c", "i", "%", "n", "s", "u", "m", "m", "a", "r", "y", " ", "%", "s", "%", "n", "f", "i", "l", "e", "n", "a", "m", "e", " ", "?">>
ShowCmd ==
    <<"s", "h", "o", "w">>
Incremental ==
    <<"-", "-", "i", "n", "c", "r", "e", "m", "e", "n", "t", "a", "l">>
LinePorcelain ==
    <<"-", "-", "l", "i", "n", "e", "-", "p", "o", "r", "c", "e", "l", "a", "i", "n">>
Porcelain ==
    <<"-", "-", "p", "o", "r", "c", "e", "l", "a", "i", "n">>

(***************************************************************************)
(* JavaScript string primitives.                                           *)
(***************************************************************************)
Max(S) == CHOOSE x \in S : \A y \in S : y <= x

Min(S) == CHOOSE x \in S : \A y \in S : x <= y

\* does p occur in s at (1-based) position i
OccursAt(s, p, i) ==
    /\ i >= 1
    /\ i + Len(p) - 1 <= Len(s)
    /\ \A k \in 1..Len(p) : s[i + k - 1] = p[k]

\* String.prototype.indexOf, 1-based; 0 when p does not occur in s
IndexOf(s, p) ==
    LET hits == {i \in 1..(Len(s) + 1) : OccursAt(s, p, i)}
    IN IF hits = {} THEN 0 ELSE Min(hits)

\* String.prototype.includes
Includes(s, p) == IndexOf(s, p) # 0

\* String.prototype.replace with a string pattern: the first occurrence only
ReplaceFirst(s, p, r) ==
    LET i == IndexOf(s, p)
    IN IF i = 0 THEN s
       ELSE SubSeq(s, 1, i - 1) \o r \o SubSeq(s, i + Len(p), Len(s))

\* String.prototype.replace(/\\/g, '/')
RECURSIVE SlashAll(_)
SlashAll(s) ==
    IF s = <<>> THEN <<>>
    ELSE <<IF Head(s) = "\\" THEN "/" ELSE Head(s)>> \o SlashAll(Tail(s))

\* String.prototype.replace(/\r?\n|\r/g, r)
RECURSIVE ReplaceNewlines(_, _)
ReplaceNewlines(s, r) ==
    IF s = <<>> THEN <<>>
    ELSE IF Len(s) >= 2 /\ s[1] = "\r" /\ s[2] = "\n"
         THEN r \o ReplaceNewlines(SubSeq(s, 3, Len(s)), r)
    ELSE IF Head(s) \in {"\n", "\r"} THEN r \o ReplaceNewlines(Tail(s), r)
    ELSE <<Head(s)>> \o ReplaceNewlines(Tail(s), r)

DecDigits == <<"0", "1", "2", "3", "4", "5", "6", "7", "8", "9">>

\* template-literal conversion of a non-negative integer
RECURSIVE NumStr(_)
NumStr(n) ==
    IF n < 10 THEN <<DecDigits[n + 1]>>
    ELSE NumStr(n \div 10) \o <<DecDigits[(n % 10) + 1]>>

\* undefined, and the empty string: both are falsy in the source's tests
None == <<>>

Truthy(s) == s # <<>>

(***************************************************************************)
(* Node's path module (posix flavour), as used by splitPath and            *)
(* getVersionedFile.                                                       *)
(***************************************************************************)
PathBasename(p) ==
    LET nonSlash == {i \in 1..Len(p) : p[i] # "/"}
        e == IF nonSlash = {} THEN 0 ELSE Max(nonSlash)
        before == {i \in 1..e : p[i] = "/"}
        s == IF before = {} THEN 0 ELSE Max(before)
    IN IF e = 0 THEN <<>> ELSE SubSeq(p, s + 1, e)

PathDirname(p) ==
    LET cand == {i \in 2..Len(p) :
                    p[i] = "/" /\ \E j \in (i + 1)..Len(p) : p[j] # "/"}
        hasRoot == Len(p) > 0 /\ p[1] = "/"
    IN IF Len(p) = 0 THEN <<".">>
       ELSE IF cand = {} THEN (IF hasRoot THEN <<"/">> ELSE <<".">>)
       ELSE IF hasRoot /\ Max(cand) = 2 THEN <<"/", "/">>
       ELSE SubSeq(p, 1, Max(cand) - 1)

PathExtname(p) ==
    LET b == PathBasename(p)
        dots == {i \in 1..Len(b) : b[i] = "."}
        d == IF dots = {} THEN 0 ELSE Max(dots)
    IN IF d <= 1 \/ b = <<".", ".">> THEN <<>> ELSE SubSeq(b, d, Len(b))

\* path.basename(p, ext) with ext = path.extname(p)
PathBasenameNoExt(p) ==
    LET b == PathBasename(p)
    IN SubSeq(b, 1, Len(b) - Len(PathExtname(p)))

(***************************************************************************)
(* Path Resolver.                                                          *)
(***************************************************************************)
normalizePath(fileName) == SlashAll(fileName)

splitPath(fileName, repoPath) ==
    IF Truthy(repoPath)
    THEN <<ReplaceFirst(fileName, repoPath \o <<"/">>, <<>>), repoPath>>
    ELSE <<SlashAll(PathBasename(fileName)), SlashAll(PathDirname(fileName))>>

\* the regex without its +: one zero only
isUncommittedOneZero(sha) == sha = <<"0">>

isUncommitted(sha) == Len(sha) >= 1 /\ \A i \in 1..Len(sha) : sha[i] = "0"


(***************************************************************************)
(* Values of the environment: errors, tool output, executable handles.     *)
(***************************************************************************)
\* a thrown value; truthy = FALSE is a falsy rejection value
Err(name, message) == [truthy |-> TRUE, name |-> name, message |-> message]

NoErr == [truthy |-> FALSE, name |-> <<>>, message |-> <<>>]

ErrorName == <<"E", "r", "r", "o", "r">>

TypeErrorName == <<"T", "y", "p", "e", "E", "r", "r", "o", "r">>

\* Error.prototype.toString
ErrToString(ex) ==
    IF ex.name = <<>> THEN ex.message
    ELSE IF ex.message = <<>> THEN ex.name
    ELSE ex.name \o <<":", " ">> \o ex.message

\* reading git.path while git is still undefined
UndefinedGit ==
    Err(TypeErrorName,
        <<"C", "a", "n", "n", "o", "t", " ", "r", "e", "a", "d", " ", "p", "r", "o", "p", "e", "r", "t", "y", " ", "'", "p", "a", "t", "h", "'", " ", "o", "f", " ", "u", "n", "d", "e", "f", "i", "n", "e", "d">>)

DiscoveryError == Err(ErrorName, <<"n", "o", " ", "g", "i", "t">>)

TmpError == Err(ErrorName, <<"E", "M", "F", "I", "L", "E">>)

AppendError == Err(ErrorName, <<"E", "N", "O", "S", "P", "C">>)

\* new Error(`sha=${sha} is uncommitted`)
UncommittedError(sha) ==
    Err(ErrorName, <<"s", "h", "a", "=">> \o sha
                   \o <<" ", "i", "s", " ", "u", "n", "c", "o", "m", "m", "i", "t", "t", "e", "d">>)

Fatal == <<"f", "a", "t", "a", "l", ":", " ">>

Exit128 == <<"\n", "e", "x", "i", "t">>

\* what spawnPromise can reject with
FailNotARepoOld == Err(ErrorName, Fatal \o NotAGitRepository \o Exit128)

FailNotARepoNew == Err(ErrorName, Fatal \o <<"n">> \o Tail(NotAGitRepository) \o Exit128)

FailOutside == Err(ErrorName, Fatal \o <<"a", " ">> \o IsOutsideRepository \o Exit128)

FailNoPath == Err(ErrorName, Fatal \o NoSuchPath \o <<" ", "a">> \o Exit128)

FailBadRevision == Err(ErrorName, Fatal \o <<"b", "a", "d", " ", "r", "e", "v">> \o Exit128)

Failures ==
    {FailNotARepoOld, FailNotARepoNew, FailOutside, FailNoPath, FailBadRevision, NoErr}

\* the failures the concurrent specification draws from
MainFailures == {FailOutside, FailBadRevision}

\* what spawnPromise can resolve with
Outputs == {<<"/", "r", "\n">>, <<"\\", "r", "\r", "\n">>}

MainOutputs == {<<"/", "r", "\n">>}

NoGit == [defined |-> FALSE, path |-> <<>>]

Handle(path) == [defined |-> TRUE, path |-> path]

GitOnPath == <<"g", "i", "t">>

GitHinted == <<"/", "g", "i", "t">>

\* findGitPath(hint): the hinted executable, else the one on the PATH
FindGitPath(gitPath) == IF Truthy(gitPath) THEN Handle(gitPath) ELSE Handle(GitOnPath)


(***************************************************************************)
(* Process Invoker: gitCommand.                                            *)
(***************************************************************************)
\* the levels of the Logger
Info == "log"

Warn == "warn"

Error == "error"

\* msg = ex && ex.toString()
FailureMsg(ex) == IF ex.truthy THEN ErrToString(ex) ELSE <<>>

\* the first condition matched whatever the case of its first letter
ClassifyAnyCase(msg) ==
    IF /\ Truthy(msg)
       /\ \/ Includes(msg, NotAGitRepository)
          \/ Includes(msg, <<"n">> \o Tail(NotAGitRepository))
          \/ Includes(msg, IsOutsideRepository)
          \/ Includes(msg, NoSuchPath)
    THEN Warn
    ELSE Error

\* the level the catch block logs a failure at
Classify(msg) ==
    IF /\ Truthy(msg)
       /\ \/ Includes(msg, NotAGitRepository)
          \/ Includes(msg, IsOutsideRepository)
          \/ Includes(msg, NoSuchPath)
    THEN Warn
    ELSE Error

\* the last part of a failure's log entry
FailureText(msg) ==
    IF Truthy(msg) THEN <<"\n", " ", " ">> \o ReplaceNewlines(msg, <<" ">>) ELSE msg

LogEntry(level, cwd, args, text) ==
    [level |-> level, cwd |-> cwd, args |-> args, text |-> text]

\* a catch block that keeps quiet about the benign failures
CatchLogsQuiet(cwd, args, ex) ==
    IF Classify(FailureMsg(ex)) = Warn THEN <<>>
    ELSE <<LogEntry(Error, cwd, args, FailureText(FailureMsg(ex)))>>

\* the log entries the catch block writes for a failure
CatchLogs(cwd, args, ex) ==
    <<LogEntry(Classify(FailureMsg(ex)), cwd, args, FailureText(FailureMsg(ex)))>>

\* the log entries written after the awaited process has succeeded
SuccessLogs(cwd, args) == <<LogEntry(Info, cwd, args, <<>>)>>

\* a read that falls back to the bare command name
ReadGitPathOrDefault(g) ==
    [threw |-> FALSE, path |-> IF g.defined THEN g.path ELSE <<"g", "i", "t">>]

\* what the first argument of spawnPromise, git.path, evaluates to
ReadGitPath(g) ==
    IF g.defined THEN [threw |-> FALSE, path |-> g.path]
    ELSE [threw |-> TRUE, path |-> <<>>]

(***************************************************************************)
(* Revision Reader: the argument lists.                                    *)
(***************************************************************************)
GitBlameFormat == {Incremental, LinePorcelain, Porcelain}

RepoPathArgs == <<RevParse, ShowToplevel>>

LineRange(startLine, endLine) ==
    <<"-", "L", " ">> \o NumStr(startLine) \o <<",">> \o NumStr(endLine)

BlameArgs(format, file, sha) ==
    IF Truthy(sha)
    THEN <<BlameCmd, format, RootFlag, sha \o <<"^">>, DashDash, file>>
    ELSE <<BlameCmd, format, RootFlag, DashDash, file>>

BlameLinesArgs(format, file, startLine, endLine, sha) ==
    IF Truthy(sha)
    THEN <<BlameCmd, LineRange(startLine, endLine), format, RootFlag,
           sha \o <<"^">>, DashDash, file>>
    ELSE <<BlameCmd, LineRange(startLine, endLine), format, RootFlag, DashDash, file>>

LogArgs(file) == <<LogCmd, Follow, NameOnly, NoMerges, LogFormat, file>>

\* the ranged log with the full log's --follow
LogRangeArgsFollow(file, start, end) ==
    <<LogCmd, Follow, NameOnly, NoMerges, LogFormat,
      LineRange(start, end) \o <<":">> \o file>>

LogRangeArgs(file, start, end) ==
    <<LogCmd, NameOnly, NoMerges, LogFormat, LineRange(start, end) \o <<":">> \o file>>

\* sha.replace('^', '')
StripCaret(sha) == ReplaceFirst(sha, <<"^">>, <<>>)

ShowArgs(file, sha) == <<ShowCmd, sha \o <<":", ".", "/">> \o file>>

\* data.replace(/\r?\n|\r/g, '').replace(/\\/g, '/')
RepoPathResult(data) == SlashAll(ReplaceNewlines(data, <<>>))


(***************************************************************************)
(* Calls.  calls[c] is the c-th call the host issues; the calls run         *)
(* concurrently on one event loop, so every action is one uninterrupted    *)
(* run of code between two awaited events.                                 *)
(***************************************************************************)
MaxCalls == 2

Calls == 1..MaxCalls

NoInput ==
    [fileName |-> <<>>, repoPath |-> <<>>, sha |-> <<>>, format |-> <<>>,
     startLine |-> 0, endLine |-> 0, cwd |-> <<>>, gitPath |-> <<>>]

\* op: the operation called; pc: the event the call waits for;
\* atCall: the handle when the operation was called; found: what discovery
\* returned; thrown: what spawnPromise or the read of git.path threw;
\* cmd, cmdError, data: the promise of the content or command step;
\* promise, value, error: the promise the caller holds
IdleCall ==
    [op |-> "none", pc |-> "idle", input |-> NoInput, atCall |-> NoGit,
     found |-> NoGit, invoked |-> FALSE, cwd |-> <<>>, args |-> <<>>,
     spawned |-> FALSE, exe |-> <<>>, logs |-> <<>>, cmd |-> "none",
     thrown |-> NoErr, cmdError |-> NoErr, data |-> <<>>, promise |-> "none", value |-> <<>>,
     error |-> NoErr]

Started(call, op, input, g) ==
    [call EXCEPT !.op = op, !.input = input, !.atCall = g, !.promise = "pending"]

Reject(call, ex) == [call EXCEPT !.promise = "rejected", !.error = ex, !.pc = "done"]

Resolve(call, v) == [call EXCEPT !.promise = "resolved", !.value = v, !.pc = "done"]

\* gitCommand's promise was rejected with ex: what the operation does with it
CommandRejected(call, ex) ==
    LET failed == [call EXCEPT !.cmd = "rejected", !.cmdError = ex,
                               !.logs = @ \o CatchLogs(call.cwd, call.args, ex)]
    IN IF call.op = "getVersionedFile"
       THEN [failed EXCEPT !.pc = "done"]   \* then() has no rejection handler
       ELSE Reject(failed, ex)

\* gitCommand's promise was resolved with s: what the operation does with it
CommandResolved(call, s) ==
    LET ok == [call EXCEPT !.cmd = "resolved", !.data = s,
                           !.logs = @ \o SuccessLogs(call.cwd, call.args)]
    IN CASE call.op = "repoPath" -> Resolve(ok, RepoPathResult(s))
         [] call.op = "getVersionedFile" -> [ok EXCEPT !.pc = "tmpFile"]
         [] OTHER -> Resolve(ok, s)

\* gitCommand(cwd, ...args) up to its await
GitCommand(call, g, cwd, args) ==
    LET entered == [call EXCEPT !.invoked = TRUE, !.cwd = cwd, !.args = args]
        exe == ReadGitPath(g)
    IN IF exe.threw
       THEN CommandRejected([entered EXCEPT !.thrown = UndefinedGit], UndefinedGit)
       ELSE [entered EXCEPT !.spawned = TRUE, !.exe = exe.path,
                            !.cmd = "pending", !.pc = "spawnPromise"]

\* a handle that is kept once it is resolved
ResolvedGitOnce(g, found) == IF g.defined THEN g ELSE found

\* the handle after `git = await findGitPath(gitPath)` has resumed
ResolvedGit(g, found) == found

\* calls are numbered in the order they are issued
IsNextCall(c) == calls[c].pc = "idle" /\ \A d \in 1..(c - 1) : calls[d].pc # "idle"

File(fileName, repoPath) == splitPath(normalizePath(fileName), repoPath)[1]

Root(fileName, repoPath) == splitPath(normalizePath(fileName), repoPath)[2]

RepoPath(c, cwd, gitPath) ==
    /\ IsNextCall(c)
    /\ calls' = [calls EXCEPT ![c] =
         [Started(@, "repoPath", [NoInput EXCEPT !.cwd = cwd, !.gitPath = gitPath], git)
            EXCEPT !.pc = "findGitPath"]]
    /\ findCount' = findCount + 1
    /\ UNCHANGED git

FindGitPathReturns(c) ==
    /\ calls[c].pc = "findGitPath"
    /\ LET found == FindGitPath(calls[c].input.gitPath)
           g == ResolvedGit(git, found)
       IN /\ git' = g
          /\ calls' = [calls EXCEPT ![c] =
               GitCommand([@ EXCEPT !.found = found], g, @.input.cwd, RepoPathArgs)]
    /\ UNCHANGED findCount

FindGitPathFails(c) ==
    /\ calls[c].pc = "findGitPath"
    /\ calls' = [calls EXCEPT ![c] = Reject(@, DiscoveryError)]
    /\ UNCHANGED <<git, findCount>>

BlameCall(c, format, fileName, sha, repoPath) ==
    /\ IsNextCall(c)
    /\ calls' = [calls EXCEPT ![c] =
         GitCommand(Started(@, "blame",
                            [NoInput EXCEPT !.format = format, !.fileName = fileName,
                                            !.sha = sha, !.repoPath = repoPath], git),
                    git, Root(fileName, repoPath),
                    BlameArgs(format, File(fileName, repoPath), sha))]
    /\ UNCHANGED <<git, findCount>>

BlameLinesCall(c, format, fileName, startLine, endLine, sha, repoPath) ==
    /\ IsNextCall(c)
    /\ calls' = [calls EXCEPT ![c] =
         GitCommand(Started(@, "blameLines",
                            [NoInput EXCEPT !.format = format, !.fileName = fileName,
                                            !.startLine = startLine, !.endLine = endLine,
                                            !.sha = sha, !.repoPath = repoPath], git),
                    git, Root(fileName, repoPath),
                    BlameLinesArgs(format, File(fileName, repoPath), startLine, endLine, sha))]
    /\ UNCHANGED <<git, findCount>>

LogCall(c, fileName, repoPath) ==
    /\ IsNextCall(c)
    /\ calls' = [calls EXCEPT ![c] =
         GitCommand(Started(@, "log",
                            [NoInput EXCEPT !.fileName = fileName, !.repoPath = repoPath], git),
                    git, Root(fileName, repoPath), LogArgs(File(fileName, repoPath)))]
    /\ UNCHANGED <<git, findCount>>

LogRangeCall(c, fileName, start, end, repoPath) ==
    /\ IsNextCall(c)
    /\ calls' = [calls EXCEPT ![c] =
         GitCommand(Started(@, "logRange",
                            [NoInput EXCEPT !.fileName = fileName, !.startLine = start,
                                            !.endLine = end, !.repoPath = repoPath], git),
                    git, Root(fileName, repoPath),
                    LogRangeArgs(File(fileName, repoPath), start, end))]
    /\ UNCHANGED <<git, findCount>>

\* Git.getVersionedFileText, called by the host (op "getVersionedFileText")
\* or by getVersionedFile (op "getVersionedFile")
GetVersionedFileText(call, g, fileName, repoPath, sha) ==
    LET stripped == StripCaret(sha)
    IN IF isUncommitted(stripped)
       THEN IF call.op = "getVersionedFile"
            THEN [call EXCEPT !.cmd = "rejected",
                              !.cmdError = UncommittedError(stripped), !.pc = "done"]
            ELSE Reject([call EXCEPT !.cmd = "rejected",
                                     !.cmdError = UncommittedError(stripped)],
                        UncommittedError(stripped))
       ELSE GitCommand(call, g, Root(fileName, repoPath),
                       ShowArgs(File(fileName, repoPath), stripped))

GetVersionedFileTextCall(c, fileName, repoPath, sha) ==
    /\ IsNextCall(c)
    /\ calls' = [calls EXCEPT ![c] =
         GetVersionedFileText(
             Started(@, "getVersionedFileText",
                     [NoInput EXCEPT !.fileName = fileName, !.repoPath = repoPath,
                                     !.sha = sha], git),
             git, fileName, repoPath, sha)]
    /\ UNCHANGED <<git, findCount>>

GetVersionedFileCall(c, fileName, repoPath, sha) ==
    /\ IsNextCall(c)
    /\ calls' = [calls EXCEPT ![c] =
         GetVersionedFileText(
             Started(@, "getVersionedFile",
                     [NoInput EXCEPT !.fileName = fileName, !.repoPath = repoPath,
                                     !.sha = sha], git),
             git, fileName, repoPath, sha)]
    /\ UNCHANGED <<git, findCount>>

SpawnSucceeds(c, s) ==
    /\ calls[c].pc = "spawnPromise"
    /\ calls' = [calls EXCEPT ![c] = CommandResolved(@, s)]
    /\ UNCHANGED <<git, findCount>>

SpawnFails(c, ex) ==
    /\ calls[c].pc = "spawnPromise"
    /\ calls' = [calls EXCEPT ![c] = CommandRejected([@ EXCEPT !.thrown = ex], ex)]
    /\ UNCHANGED <<git, findCount>>

(***************************************************************************)
(* Materializer: the callbacks of tmp.file and fs.appendFile.              *)
(***************************************************************************)
TmpDir == <<"/", "t", "/">>

\* the name tmp.file allocates for { prefix, postfix }; unique is its own part
TmpName(fileName, sha, unique) ==
    TmpDir \o PathBasenameNoExt(fileName) \o <<"-">> \o sha \o <<"_", "_">>
           \o unique \o PathExtname(fileName)

TmpFileReturns(c, unique) ==
    /\ calls[c].pc = "tmpFile"
    /\ calls' = [calls EXCEPT ![c] =
         [@ EXCEPT !.value = TmpName(calls[c].input.fileName, calls[c].input.sha, unique),
                   !.pc = "appendFile"]]
    /\ UNCHANGED <<git, findCount>>

TmpFileFails(c) ==
    /\ calls[c].pc = "tmpFile"
    /\ calls' = [calls EXCEPT ![c] = Reject(@, TmpError)]
    /\ UNCHANGED <<git, findCount>>

AppendFileReturns(c) ==
    /\ calls[c].pc = "appendFile"
    /\ calls' = [calls EXCEPT ![c] = Resolve(@, @.value)]
    /\ UNCHANGED <<git, findCount>>

AppendFileFails(c) ==
    /\ calls[c].pc = "appendFile"
    /\ calls' = [calls EXCEPT ![c] = Reject([@ EXCEPT !.value = <<>>], AppendError)]
    /\ UNCHANGED <<git, findCount>>

(***************************************************************************)
(* The host: concurrent calls with small arguments.                        *)
(***************************************************************************)
Cwd == <<"/", "r">>

TheFile == <<"/", "r", "/", "a", ".", "t">>

Sha1 == <<"a", "b">>

Zeros == [i \in 1..40 |-> "0"]

Init ==
    /\ git = NoGit
    /\ calls = [c \in Calls |-> IdleCall]
    /\ findCount = 0

Next ==
    \E c \in Calls :
        \/ \E gitPath \in {None, GitHinted} : RepoPath(c, Cwd, gitPath)
        \/ FindGitPathReturns(c)
        \/ FindGitPathFails(c)
        \/ \E sha \in {None, Sha1} : BlameCall(c, Porcelain, TheFile, sha, Cwd)
        \/ BlameLinesCall(c, Incremental, TheFile, 1, 2, None, None)
        \/ LogCall(c, TheFile, Cwd)
        \/ LogRangeCall(c, TheFile, 1, 2, Cwd)
        \/ \E sha \in {Sha1, Zeros} : GetVersionedFileTextCall(c, TheFile, Cwd, sha)
        \/ \E sha \in {Sha1, Zeros} : GetVersionedFileCall(c, TheFile, Cwd, sha)
        \/ \E s \in MainOutputs : SpawnSucceeds(c, s)
        \/ \E ex \in MainFailures : SpawnFails(c, ex)
        \/ TmpFileReturns(c, <<"7">>)
        \/ TmpFileFails(c)
        \/ AppendFileReturns(c)
        \/ AppendFileFails(c)

Spec == Init /\ [][Next]_vars


(***************************************************************************)
(* One call at a time, with every argument shape and every failure.        *)
(***************************************************************************)
Strings(alphabet, n) == UNION {[1..k -> alphabet] : k \in 0..n}

WinFile == <<"\\", "r", "\\", "a", ".", "t">>

InvokeFiles == {TheFile, WinFile, <<"a", ".", "t">>}

InvokeShas == {Sha1, Sha1 \o <<"^">>, Zeros, <<"0", "^">>}

InitInvoke ==
    /\ git \in {NoGit, Handle(GitOnPath)}
    /\ calls = <<IdleCall>>
    /\ findCount = 0

NextInvoke ==
    \/ \E gitPath \in {None, GitHinted} : RepoPath(1, Cwd, gitPath)
    \/ FindGitPathReturns(1)
    \/ FindGitPathFails(1)
    \/ \E format \in GitBlameFormat, fileName \in InvokeFiles, sha \in {None, Sha1},
          repoPath \in {None, Cwd} :
           \/ BlameCall(1, format, fileName, sha, repoPath)
           \/ BlameLinesCall(1, format, fileName, 10, 20, sha, repoPath)
    \/ \E fileName \in InvokeFiles, repoPath \in {None, Cwd} :
           \/ LogCall(1, fileName, repoPath)
           \/ LogRangeCall(1, fileName, 10, 20, repoPath)
           \/ \E sha \in InvokeShas :
                  \/ GetVersionedFileTextCall(1, fileName, repoPath, sha)
                  \/ GetVersionedFileCall(1, fileName, repoPath, sha)
    \/ \E s \in Outputs : SpawnSucceeds(1, s)
    \/ \E ex \in Failures : SpawnFails(1, ex)
    \/ TmpFileReturns(1, <<"7">>)
    \/ TmpFileFails(1)
    \/ AppendFileReturns(1)
    \/ AppendFileFails(1)

SpecInvoke == InitInvoke /\ [][NextInvoke]_vars

(***************************************************************************)
(* splitPath on its own, over every short path and root.                   *)
(***************************************************************************)
MaxPathLen == 4

MaxRootLen == 2

PathInputs == Strings({"r", "a", "/", "\\"}, MaxPathLen)

RootInputs == Strings({"r", "/"}, MaxRootLen)

Preloaded(op, input) == [IdleCall EXCEPT !.op = op, !.input = input]

\* Git.splitPath called by the host: the pair comes back in value and cwd
SplitPathCall(c) ==
    /\ calls[c].pc = "idle"
    /\ calls[c].op = "splitPath"
    /\ LET pair == splitPath(calls[c].input.fileName, calls[c].input.repoPath)
       IN calls' = [calls EXCEPT ![c] =
                       [@ EXCEPT !.value = pair[1], !.cwd = pair[2], !.pc = "done"]]
    /\ UNCHANGED <<git, findCount>>

InitSplit ==
    /\ git = NoGit
    /\ \E fileName \in PathInputs, repoPath \in RootInputs :
           calls = <<Preloaded("splitPath",
                               [NoInput EXCEPT !.fileName = fileName,
                                               !.repoPath = repoPath])>>
    /\ findCount = 0

NextSplit == SplitPathCall(1)

SpecSplit == InitSplit /\ [][NextSplit]_vars

(***************************************************************************)
(* log and logRange of the same file and root, side by side.               *)
(***************************************************************************)
MaxLine == 11

LineInputs == {0, 1, MaxLine}

MaxFileLen == 3

LogFiles == Strings({"r", "a", "/"}, MaxFileLen)

LogRoots == {None, <<"r">>, Cwd}

InitLog ==
    /\ git \in {NoGit, Handle(GitOnPath)}
    /\ \E fileName \in LogFiles, repoPath \in LogRoots, start \in LineInputs,
          end \in LineInputs :
           LET input == [NoInput EXCEPT !.fileName = fileName, !.repoPath = repoPath,
                                        !.startLine = start, !.endLine = end]
           IN calls = <<Preloaded("log", input), Preloaded("logRange", input)>>
    /\ findCount = 0

NextLog ==
    \/ LogCall(1, calls[1].input.fileName, calls[1].input.repoPath)
    \/ LogRangeCall(2, calls[2].input.fileName, calls[2].input.startLine,
                    calls[2].input.endLine, calls[2].input.repoPath)

SpecLog == InitLog /\ [][NextLog]_vars

(***************************************************************************)
(* getVersionedFileText of a revision r and of r^, side by side.           *)
(***************************************************************************)
MaxShaLen == 3

\* revisions in git's syntax: a name, then any carets and parent numbers
ShaInputs ==
    {s \in Strings({"a", "0", "^"}, MaxShaLen) : s # <<>> => s[1] # "^"} \cup {Zeros}

ShowFiles == {TheFile, <<"a">>}

InitShow ==
    /\ git \in {NoGit, Handle(GitOnPath)}
    /\ \E fileName \in ShowFiles, repoPath \in {None, Cwd}, r \in ShaInputs :
           LET input == [NoInput EXCEPT !.fileName = fileName, !.repoPath = repoPath]
           IN calls = <<Preloaded("getVersionedFileText", [input EXCEPT !.sha = r]),
                        Preloaded("getVersionedFileText",
                                  [input EXCEPT !.sha = r \o <<"^">>])>>
    /\ findCount = 0

NextShow ==
    \E c \in {1, 2} :
        GetVersionedFileTextCall(c, calls[c].input.fileName, calls[c].input.repoPath,
                                 calls[c].input.sha)

SpecShow == InitShow /\ [][NextShow]_vars


(***************************************************************************)
(* Properties.                                                             *)
(***************************************************************************)
Slots == DOMAIN calls

IsSentinel(sha) == sha # <<>> /\ \A i \in 1..Len(sha) : sha[i] = "0"

StartsWith(s, p) == Len(p) <= Len(s) /\ SubSeq(s, 1, Len(p)) = p

\* C1: when the content-retrieval step of getVersionedFile has failed and the
\* call has nothing left to run, the promise it returned is rejected with that
\* failure.
C1_FailurePropagates ==
    \A c \in Slots :
        (calls[c].op = "getVersionedFile" /\ calls[c].cmd = "rejected"
            /\ calls[c].pc = "done")
        => (calls[c].promise = "rejected" /\ calls[c].error = calls[c].cmdError)

\* C2: a content request whose revision is the all-zero sentinel never enters
\* gitCommand and never spawns; its content step is rejected with the
\* "is uncommitted" error, which getVersionedFileText hands to its caller.
C2_SentinelSpawnsNothing ==
    \A c \in Slots :
        (calls[c].op \in {"getVersionedFileText", "getVersionedFile"}
            /\ IsSentinel(calls[c].input.sha))
        => /\ ~calls[c].spawned
           /\ ~calls[c].invoked
           /\ calls[c].cmd = "rejected"
           /\ calls[c].cmdError = UncommittedError(calls[c].input.sha)
           /\ calls[c].op = "getVersionedFileText"
                => (calls[c].promise = "rejected" /\ calls[c].error = calls[c].cmdError)

C2_Witness ==
    \E c \in Slots :
        /\ calls[c].op = "getVersionedFileText"
        /\ calls[c].input.sha = Zeros
        /\ calls[c].promise = "rejected"
        /\ \E d \in Slots : calls[d].spawned

\* C3: an invocation of gitCommand has written no log entry while its process
\* runs, and exactly one once it has completed: an informational one when it
\* succeeded, a warning or an error one when it failed.
C3_ExactlyOneLogEntry ==
    \A c \in Slots :
        /\ ~calls[c].invoked => calls[c].logs = <<>>
        /\ calls[c].invoked =>
            /\ calls[c].cmd \in {"pending", "resolved", "rejected"}
            /\ calls[c].cmd = "pending" => calls[c].logs = <<>>
            /\ calls[c].cmd = "resolved"
                => (Len(calls[c].logs) = 1 /\ calls[c].logs[1].level = Info)
            /\ calls[c].cmd = "rejected"
                => (Len(calls[c].logs) = 1 /\ calls[c].logs[1].level \in {Warn, Error})

C3_Witness ==
    \E c \in Slots :
        /\ calls[c].invoked
        /\ calls[c].spawned
        /\ calls[c].thrown = FailOutside
        /\ calls[c].cmd = "rejected"
        /\ Len(calls[c].logs) = 1

LowerNotAGitRepository == <<"n">> \o Tail(NotAGitRepository)

\* C4 as stated: a failure whose message contains "not a git repository",
\* "is outside repository" or "no such path" is logged as a warning, every
\* other failure as an error.
C4_LowerCaseIsBenign ==
    \A c \in Slots :
        (calls[c].invoked /\ calls[c].cmd = "rejected")
        => LET msg == FailureMsg(calls[c].thrown)
               benign == \/ Includes(msg, LowerNotAGitRepository)
                         \/ Includes(msg, IsOutsideRepository)
                         \/ Includes(msg, NoSuchPath)
           IN /\ Len(calls[c].logs) = 1
              /\ calls[c].logs[1].level = (IF benign THEN Warn ELSE Error)

\* C4 amended: the first condition is "Not a git repository" with a capital N,
\* matched with its case; a failure whose message contains it, "is outside
\* repository" or "no such path" is logged as a warning, every other failure
\* as an error, and in both cases gitCommand rejects with the value that was
\* thrown and its caller gets no result.
C4_ClassificationOnlyLogs ==
    \A c \in Slots :
        (calls[c].invoked /\ calls[c].cmd = "rejected")
        => LET msg == FailureMsg(calls[c].thrown)
               benign == \/ Includes(msg, NotAGitRepository)
                         \/ Includes(msg, IsOutsideRepository)
                         \/ Includes(msg, NoSuchPath)
           IN /\ Len(calls[c].logs) = 1
              /\ calls[c].logs[1].level = (IF benign THEN Warn ELSE Error)
              /\ calls[c].cmdError = calls[c].thrown
              /\ calls[c].data = <<>>
              /\ calls[c].promise # "resolved"
              /\ calls[c].op # "getVersionedFile"
                   => (calls[c].promise = "rejected" /\ calls[c].error = calls[c].thrown)

C4_Witness ==
    \E c \in Slots :
        /\ calls[c].spawned
        /\ calls[c].thrown = FailNotARepoNew
        /\ calls[c].logs[1].level = Error
        /\ calls[c].promise = "rejected"
        /\ calls[c].error = FailNotARepoNew

Others == {"blame", "blameLines", "log", "logRange", "getVersionedFileText"}

\* C6: a repository-root lookup whose discovery failed is rejected with the
\* discovery error and has spawned nothing; a blame, ranged blame, log, ranged
\* log or content request called while no handle is resolved is rejected and
\* has spawned nothing.
C6_NoHandleNoProcess ==
    \A c \in Slots :
        /\ (calls[c].op = "repoPath" /\ calls[c].pc = "done" /\ ~calls[c].found.defined)
             => /\ calls[c].promise = "rejected"
                /\ calls[c].error = DiscoveryError
                /\ ~calls[c].invoked
                /\ ~calls[c].spawned
        /\ (calls[c].op \in Others /\ ~calls[c].atCall.defined)
             => /\ calls[c].promise = "rejected"
                /\ calls[c].pc = "done"
                /\ ~calls[c].spawned

C6_Witness ==
    /\ ~git.defined
    /\ calls[1].op = "repoPath" /\ calls[1].error = DiscoveryError
    /\ calls[2].op = "blame" /\ calls[2].invoked
    /\ calls[2].promise = "rejected" /\ calls[2].error = UndefinedGit

\* C7: with a root supplied, splitPath removes root + "/" only as a prefix,
\* leaves every other path unchanged, and returns the root as supplied.
C7_StripsOnlyPrefix ==
    \A c \in Slots :
        (calls[c].op = "splitPath" /\ calls[c].pc = "done"
            /\ Truthy(calls[c].input.repoPath))
        => LET path == calls[c].input.fileName
               prefix == calls[c].input.repoPath \o <<"/">>
           IN /\ calls[c].cwd = calls[c].input.repoPath
              /\ calls[c].value = IF StartsWith(path, prefix)
                                  THEN SubSeq(path, Len(prefix) + 1, Len(path))
                                  ELSE path

BothCalled == \A c \in Slots : calls[c].invoked

RangedFile(call) ==
    LineRange(call.input.startLine, call.input.endLine) \o <<":">>
        \o File(call.input.fileName, call.input.repoPath)

\* C8 as stated: the ranged log's arguments are the full log's with only the
\* trailing file argument replaced by `-L <start>,<end>:<file>`.
C8_SameFlags ==
    BothCalled
    => /\ calls[2].cwd = calls[1].cwd
       /\ calls[2].args = SubSeq(calls[1].args, 1, Len(calls[1].args) - 1)
                            \o <<RangedFile(calls[2])>>

\* C8 amended: the ranged log's arguments are the full log's without --follow
\* and with the trailing file argument replaced by `-L <start>,<end>:<file>`:
\* log, --name-only, --no-merges, --format=<template>, -L <start>,<end>:<file>.
C8_SameFlagsButFollow ==
    BothCalled
    => /\ calls[1].args = <<LogCmd, Follow, NameOnly, NoMerges, LogFormat,
                            File(calls[1].input.fileName, calls[1].input.repoPath)>>
       /\ calls[2].cwd = calls[1].cwd
       /\ calls[2].args = <<calls[1].args[1], calls[1].args[3], calls[1].args[4],
                            calls[1].args[5], RangedFile(calls[2])>>

C8_Witness ==
    /\ BothCalled
    /\ calls[2].spawned
    /\ calls[2].input.startLine = MaxLine
    /\ calls[2].input.repoPath = <<"r">>
    /\ calls[2].input.fileName = <<"r", "/", "a">>
    /\ calls[2].args[5] = <<"-", "L", " ">> \o NumStr(MaxLine) \o <<",", "1", ":", "a">>

\* C9: a content request for r^ is treated as the one for r: both spawn the
\* same show invocation, or both are rejected alike without spawning.
C9_CaretIsStripped ==
    (calls[1].promise # "none" /\ calls[2].promise # "none")
    => /\ calls[2].spawned = calls[1].spawned
       /\ calls[2].invoked = calls[1].invoked
       /\ calls[1].spawned
            => (calls[2].cwd = calls[1].cwd /\ calls[2].args = calls[1].args)
       /\ calls[2].promise = calls[1].promise
       /\ calls[2].error = calls[1].error

\* C10: the rev-parse process of a repository-root lookup is spawned with the
\* handle this lookup's own discovery returned.
C10_OwnHandle ==
    \A c \in Slots :
        (calls[c].op = "repoPath" /\ calls[c].spawned)
        => (calls[c].found.defined /\ calls[c].exe = calls[c].found.path)

C10_Witness ==
    /\ calls[1].op = "repoPath" /\ calls[1].pc = "spawnPromise"
    /\ calls[2].op = "repoPath" /\ calls[2].pc = "spawnPromise"
    /\ calls[1].exe # calls[2].exe
    /\ git.path = calls[1].exe

====
